---- MODULE Spec2Model ----
(***************************************************************************)
(* A model of the ENS lookup front end (App.tsx): the lookup orchestrator  *)
(* doLookup, the graph parser parseGraphInput and the handlers that call   *)
(* them.  Strings are sequences of one-character strings.                  *)
(***************************************************************************)
EXTENDS Integers, Sequences, FiniteSets, TLC

\* ------------------------------------------------------------------------
\* Strings
\* ------------------------------------------------------------------------

\* The characters String.prototype.trim removes.
Whitespace == {" ", "\t", "\n"}

RECURSIVE TrimStart(_)
TrimStart(s) ==
  IF s # <<>> /\ Head(s) \in Whitespace THEN TrimStart(Tail(s)) ELSE s

RECURSIVE TrimEnd(_)
TrimEnd(s) ==
  IF s # <<>> /\ s[Len(s)] \in Whitespace
  THEN TrimEnd(SubSeq(s, 1, Len(s) - 1))
  ELSE s

\* Mutant of Trim: the query is passed on as typed.
TrimNothing(s) == s

\* String.prototype.trim
Trim(s) == TrimEnd(TrimStart(s))

Range(s) == {s[i] : i \in 1..Len(s)}

\* ------------------------------------------------------------------------
\* parseGraphInput
\* ------------------------------------------------------------------------

\* pairRegex = /\(([^,]+),([^)]+)\)/ matched at position i of s: the first
\* group ends before a comma at c, the second before a parenthesis at p.
FirstGroupEnds(s, i) ==
  {c \in (i + 2)..Len(s) : s[c] = "," /\ \A k \in (i + 1)..(c - 1) : s[k] # ","}

SecondGroupEnds(s, c) ==
  {p \in (c + 2)..Len(s) : s[p] = ")" /\ \A k \in (c + 1)..(p - 1) : s[k] # ")"}

\* The matches of pairRegex that start at position i, as <<c, p>>.
MatchesAt(s, i) ==
  IF s[i] # "(" THEN {}
  ELSE UNION {{<<c, p>> : p \in SecondGroupEnds(s, c)} : c \in FirstGroupEnds(s, i)}

\* Both groups are greedy: the first group takes its longest run, then the
\* second group its longest.
GreedyMatch(s, i) ==
  LET ms == MatchesAt(s, i)
  IN  CHOOSE cp \in ms :
        \A o \in ms :
          \/ o[1] < cp[1]
          \/ (o[1] = cp[1] /\ o[2] <= cp[2])

\* One regex match: [match[1].trim(), match[2].trim()]
MatchPair(s, i, cp) ==
  << Trim(SubSeq(s, i + 1, cp[1] - 1)),
     Trim(SubSeq(s, cp[1] + 1, cp[2] - 1)) >>

\* The while loop over pairRegex.exec(input): the leftmost match at or after
\* lastIndex, then on from the end of that match.
RECURSIVE ExecPairs(_, _)
ExecPairs(s, lastIndex) ==
  LET starts == {i \in lastIndex..Len(s) : MatchesAt(s, i) # {}}
  IN  IF starts = {} THEN <<>>
      ELSE LET i == CHOOSE j \in starts : \A k \in starts : j <= k
               cp == GreedyMatch(s, i)
           IN  <<MatchPair(s, i, cp)>> \o ExecPairs(s, cp[2] + 1)

\* Set.prototype.add on a Set kept in insertion order.
SetAdd(seq, x) == IF x \in Range(seq) THEN seq ELSE Append(seq, x)

\* pairs.forEach(([from, to]) => { nodeSet.add(from); nodeSet.add(to) })
RECURSIVE NodeSetOf(_, _)
NodeSetOf(pairs, acc) ==
  IF pairs = <<>> THEN acc
  ELSE NodeSetOf(Tail(pairs), SetAdd(SetAdd(acc, Head(pairs)[1]), Head(pairs)[2]))

GridCols == 5
GridDX == 200
GridDY == 150
GridOrigin == 100

\* Mutant of MakeNode: rows and columns of the grid exchanged.
MakeNodeTransposed(name, idx) ==
  [id |-> name, title |-> name, type |-> "empty",
   x |-> (idx \div GridCols) * GridDX + GridOrigin,
   y |-> (idx % GridCols) * GridDY + GridOrigin]

\* Array.from(nodeSet).map((name, idx) => ...), idx 0-based
MakeNode(name, idx) ==
  [id |-> name, title |-> name, type |-> "empty",
   x |-> (idx % GridCols) * GridDX + GridOrigin,
   y |-> (idx \div GridCols) * GridDY + GridOrigin]

MakeEdge(pair) == [source |-> pair[1], target |-> pair[2], type |-> "emptyEdge"]

parseGraphInput(input) ==
  LET pairs == ExecPairs(input, 1)
      names == NodeSetOf(pairs, <<>>)
  IN  [nodes |-> [k \in 1..Len(names) |-> MakeNode(names[k], k - 1)],
       edges |-> [k \in 1..Len(pairs) |-> MakeEdge(pairs[k])]]

\* ------------------------------------------------------------------------
\* Values and their conversions to text
\* ------------------------------------------------------------------------

Digits == <<"0", "1", "2", "3", "4", "5", "6", "7", "8", "9">>

\* String(n) of a non-negative integer, as a template literal renders it.
RECURSIVE NatToStr(_)
NatToStr(n) ==
  IF n < 10 THEN <<Digits[n + 1]>>
  ELSE NatToStr(n \div 10) \o <<Digits[(n % 10) + 1]>>

DigitValue(c) == CHOOSE d \in 0..9 : Digits[d + 1] = c

IsDigit(c) == \E d \in 0..9 : Digits[d + 1] = c

\* parseInt yields NaN on a string with no leading digit.
NaN == -1

\* parseInt(s): the value of the longest prefix of decimal digits.
RECURSIVE ParseIntFrom(_, _)
ParseIntFrom(s, acc) ==
  IF s = <<>> \/ ~IsDigit(Head(s)) THEN acc
  ELSE ParseIntFrom(Tail(s), acc * 10 + DigitValue(Head(s)))

ParseInt(s) == IF s = <<>> \/ ~IsDigit(Head(s)) THEN NaN ELSE ParseIntFrom(s, 0)

\* ethers.formatEther divides a wei amount by 10^EtherDecimals.
EtherDecimals == 18

RECURSIVE Zeros(_)
Zeros(n) == IF n <= 0 THEN <<>> ELSE <<"0">> \o Zeros(n - 1)

RECURSIVE StripLeadingZeros(_)
StripLeadingZeros(s) ==
  IF Len(s) > 1 /\ Head(s) = "0" THEN StripLeadingZeros(Tail(s)) ELSE s

RECURSIVE StripTrailingZeros(_)
StripTrailingZeros(s) ==
  IF Len(s) > 1 /\ s[Len(s)] = "0"
  THEN StripTrailingZeros(SubSeq(s, 1, Len(s) - 1))
  ELSE s

\* A value ethers.formatEther accepts: a non-empty string of decimal digits.
IsWei(v) == v # <<>> /\ \A i \in 1..Len(v) : IsDigit(v[i])

\* ethers.formatEther(wei) on a decimal digit string: the whole part, a
\* point, and the fraction without trailing zeros (at least one digit).
FormatEther(wei) ==
  LET padded == Zeros(EtherDecimals + 1 - Len(wei)) \o wei
      n      == Len(padded)
  IN  StripLeadingZeros(SubSeq(padded, 1, n - EtherDecimals))
        \o <<".">>
        \o StripTrailingZeros(SubSeq(padded, n - EtherDecimals + 1, n))

EthSuffix == <<" ", "E", "T", "H">>

NullText == <<"n", "u", "l", "l">>

\* String(err) of a rejected call.
ErrText == <<"E", "r", "r", "o", "r">>

\* ------------------------------------------------------------------------
\* Addresses and names
\* ------------------------------------------------------------------------

HexDigits == {"0", "1", "2", "3", "4", "5", "6", "7", "8", "9",
              "a", "b", "c", "d", "e", "f"}

\* An address is "0x" and AddressHexLen hexadecimal digits (40 on the chain;
\* the length is scaled down here, the format is the same).
AddressHexLen == 4

\* ethers.isAddress(name)
IsAddress(s) ==
  /\ Len(s) = AddressHexLen + 2
  /\ s[1] = "0"
  /\ s[2] = "x"
  /\ \A i \in 3..Len(s) : s[i] \in HexDigits

MkAddr(d) == <<"0", "x">> \o [i \in 1..AddressHexLen |-> d]

\* Characters ENS normalisation rejects: ethers.namehash throws on a name
\* that holds one.
DisallowedChars == Whitespace \cup {"(", ")", ","}

NamehashThrows(s) == \E i \in 1..Len(s) : s[i] \in DisallowedChars

\* The hash is logged only; it stands for itself here.
NamehashText(s) == <<"#">> \o s

\* ------------------------------------------------------------------------
\* The chain and the explorer, as far as the calls of doLookup read them
\* ------------------------------------------------------------------------

NameA == <<"a", ".", "e", "t", "h">>
NameB == <<"b", ".", "e", "t", "h">>
EthTld == <<".", "e", "t", "h">>

\* resolvedAddress = null
NoAddress == <<>>

\* The names resolveName can resolve.
Registered(nm) == nm \in {NameA, NameB}

\* What resolveName(nm) returns for a registered name.
AddressOf(nm) == MkAddr(nm[1])

\* What getBalance(addr) returns, in wei.
BalanceOf(addr) ==
  IF addr[3] = "a" THEN <<"1", "5">> \o Zeros(EtherDecimals - 1)
  ELSE IF addr[3] = "b" THEN <<"2">> \o Zeros(EtherDecimals)
  ELSE <<"0">>

\* What lookupAddress(addr) returns when the address has a primary name.
ReverseOf(addr) == <<addr[3]>> \o EthTld

\* resolver.address of the resolver getResolver(nm) returns.
ResolverAddressOf(nm) ==
  <<"0", "x">> \o [i \in 1..AddressHexLen |-> IF i = 1 THEN "d" ELSE nm[1]]

IpfsScheme == <<"i", "p", "f", "s", ":", "/", "/">>
HttpsScheme == <<"h", "t", "t", "p", "s", ":", "/", "/">>
IpfsGateway == HttpsScheme \o <<"i", "p", "f", "s", ".", "i", "o", "/", "i", "p", "f", "s", "/">>

TextKeys == {"name", "url", "avatar", "description"}

\* What resolver.getText(key) returns for nm when the record is set.
TextOf(nm, key) ==
  CASE key = "name"        -> <<"N", " ">> \o nm
    [] key = "url"         -> HttpsScheme \o nm
    [] key = "avatar"      -> IF nm = NameB THEN HttpsScheme \o nm \o <<"/", "p">>
                              ELSE IpfsScheme \o <<"Q", "m">> \o nm
    [] key = "description" -> <<"D", " ">> \o nm

StartsWith(s, pre) == Len(s) >= Len(pre) /\ SubSeq(s, 1, Len(pre)) = pre

\* avatarUrl.startsWith('ipfs://') ? avatarUrl.replace('ipfs://', gateway) : avatarUrl
NormalizeAvatar(avatar) ==
  IF StartsWith(avatar, IpfsScheme)
  THEN IpfsGateway \o SubSeq(avatar, Len(IpfsScheme) + 1, Len(avatar))
  ELSE avatar

\* The shapes of resolver object: which of the optional methods it has.
ResolverShapes ==
  { [getContentHash |-> TRUE,  getAddress |-> TRUE,  addr |-> FALSE],
    [getContentHash |-> FALSE, getAddress |-> FALSE, addr |-> TRUE],
    [getContentHash |-> FALSE, getAddress |-> FALSE, addr |-> FALSE] }

\* resolver = null
NoResolver ==
  [present |-> FALSE, address |-> <<>>,
   getContentHash |-> FALSE, getAddress |-> FALSE, addr |-> FALSE]

ResolverFor(nm, shape) ==
  [present |-> TRUE, address |-> ResolverAddressOf(nm),
   getContentHash |-> shape.getContentHash, getAddress |-> shape.getAddress,
   addr |-> shape.addr]

\* The page size the transaction list is asked for (offset=10).
PageSize == 10

\* The k-th record of the explorer's txlist for addr; a record with
\* valid = FALSE has a value ethers.formatEther rejects.
RawTx(addr, k, valid) ==
  [hash |-> <<"0", "x">> \o NatToStr(k) \o <<addr[3]>>,
   from |-> addr,
   to |-> MkAddr("9"),
   value |-> IF valid THEN <<"5">> \o Zeros(EtherDecimals - 1) ELSE <<"x">>,
   blockNumber |-> NatToStr(1000 - k),
   timeStamp |-> NatToStr(2000 - k)]

RawTxs(addr, n, valid) == [k \in 1..n |-> RawTx(addr, k, valid)]

\* The lengths of the result arrays the explorer is taken to return.
ResultLens == {0, 2, PageSize + 1}

\* The bodies response.json() can yield for a txlist request about addr:
\* null; status "1" with an array of records; status "1" with an array
\* holding a bad value; status "1" with a result that is no array; and
\* status "0" with a message.
NullBody ==
  [isNull |-> TRUE, status |-> "", isArray |-> FALSE, result |-> <<>>, message |-> <<>>]

JsonBodies(addr) ==
  { NullBody }
  \cup { [isNull |-> FALSE, status |-> "1", isArray |-> TRUE,
          result |-> RawTxs(addr, n, TRUE), message |-> <<"O", "K">>] : n \in ResultLens }
  \cup { [isNull |-> FALSE, status |-> "1", isArray |-> TRUE,
          result |-> RawTxs(addr, 1, FALSE), message |-> <<"O", "K">>],
         [isNull |-> FALSE, status |-> "1", isArray |-> FALSE,
          result |-> <<>>, message |-> <<"O", "K">>],
         [isNull |-> FALSE, status |-> "0", isArray |-> FALSE,
          result |-> <<>>, message |-> <<"N", "O", "T", "O", "K">>],
         [isNull |-> FALSE, status |-> "0", isArray |-> TRUE,
          result |-> <<>>, message |-> <<>>] }

\* ------------------------------------------------------------------------
\* State
\* ------------------------------------------------------------------------

\* The invocations of doLookup with a non-empty name that a session holds.
Lookups == {1, 2}

VARIABLES
  query, mode, logs, profile, transactions, loading, showModal,
  graphNodes, graphEdges, selectedNode,   \* the useState cells of App
  pc,               \* per invocation: "idle", the call it awaits, or "done"
  name,             \* per invocation: the argument of doLookup
  resolvedAddress,  \* per invocation: the local resolvedAddress
  resolver,         \* per invocation: the local resolver
  promise,          \* per invocation: the state of the promise doLookup returned
  issued,           \* the calls issued so far, as <<invocation, call>>
  settled,          \* the call that settled last and how
  calls,            \* how many times doLookup was called
  emptyCalls,       \* how many of those calls had an empty name
  running,          \* the invocation that ran last
  switches          \* how often another invocation ran in between

ui == <<query, mode, graphNodes, graphEdges, selectedNode>>
shared == <<logs, profile, transactions, loading, showModal>>
locals == <<pc, name, resolvedAddress, resolver, promise>>
env == <<issued, settled, calls, emptyCalls, running, switches>>
vars == <<ui, shared, locals, env>>

\* profile = null, and the object a non-null profile is.
NullProfile == [null |-> TRUE, obj |-> <<>>]

\* The network calls doLookup awaits.
Calls ==
  {"resolveName", "getBalance", "getCode", "getTransactionCount",
   "lookupAddress", "getResolver", "getContentHash",
   "getText_name", "getText_url", "getText_avatar", "getText_description",
   "getAddress", "addr_60", "getAddress_60", "getAddress_61",
   "fetch", "json"}

\* The state cells doLookup writes, as one record.
Cells ==
  [logs |-> logs, profile |-> profile, transactions |-> transactions,
   loading |-> loading, showModal |-> showModal]

\* Mutant of addLog: the new entry is put behind the others.
addLogAtEnd(st, level, msg, args) ==
  [st EXCEPT !.logs =
     Append(@, [time |-> Len(@) + 1, level |-> level,
                text |-> [msg |-> msg, args |-> args]])]

\* addLog: a new entry in front of the others. The time is the logical
\* clock of the log.
addLog(st, level, msg, args) ==
  [st EXCEPT !.logs =
     <<[time |-> Len(@) + 1, level |-> level,
        text |-> [msg |-> msg, args |-> args]]>> \o @]

setLoading(st, v) == [st EXCEPT !.loading = v]

\* setProfile(null)
clearProfile(st) == [st EXCEPT !.profile = NullProfile]

\* setProfile((p) => ({ ...(p ?? {}), ...fields }))
mergeProfile(st, fields) ==
  [st EXCEPT !.profile =
     [null |-> FALSE, obj |-> fields @@ (IF @.null THEN <<>> ELSE @.obj)]]

setTransactions(st, txs) == [st EXCEPT !.transactions = txs]

setShowModal(st, v) == [st EXCEPT !.showModal = v]

\* ------------------------------------------------------------------------
\* doLookup: the code between two awaits. Each operator yields the cells
\* as the code leaves them and where it stops: at a call, at "return"
\* (the try block is left) or at "throw" (an exception leaves it).
\* ------------------------------------------------------------------------

Await(st, call) == [st |-> st, at |-> call]
Return(st) == [st |-> st, at |-> "return"]
Throw(st) == [st |-> st, at |-> "throw"]

\* lines 238-247: the transaction history request
FetchHistory(st, ra) ==
  IF ra # NoAddress
  THEN Await(addLog(st, "info", "Fetching recent transactions from Etherscan...", <<>>),
             "fetch")
  ELSE Return(st)

\* lines 223-233: the loop over coinTypes, from 61 on and from 60 on
CoinLoop61(st, rs, ra) ==
  IF rs.getAddress THEN Await(st, "getAddress_61") ELSE FetchHistory(st, ra)

CoinLoop60(st, rs, ra) ==
  IF rs.getAddress THEN Await(st, "getAddress_60") ELSE CoinLoop61(st, rs, ra)

\* lines 207-220: the address the resolver holds
ResolverAddress(st, rs, ra) ==
  IF rs.getAddress THEN Await(st, "getAddress")
  ELSE IF rs.addr THEN Await(st, "addr_60")
  ELSE CoinLoop60(addLog(st, "info", "resolver address lookup API not available", <<>>),
                  rs, ra)

\* lines 140-157: the content hash, then the first text record
ContentHash(st, rs) ==
  IF rs.getContentHash THEN Await(st, "getContentHash")
  ELSE Await(addLog(st, "info", "getContentHash not available on resolver", <<>>),
             "getText_name")

\* line 137: if (resolver)
AfterResolver(st, rs, ra) ==
  IF rs.present THEN ContentHash(st, rs) ELSE FetchHistory(st, ra)

\* Mutant of AfterResolve: the return of the short-circuit is missing.
AfterResolveFallsThrough(st, nm, ra) ==
  LET s1 == IF NamehashThrows(nm) THEN st
            ELSE addLog(st, "info", "namehash: ", <<NamehashText(nm)>>)
  IN  IF ra = NoAddress
      THEN Await(clearProfile(addLog(s1, "error", "No address available for ", <<nm>>)),
                 "getBalance")
      ELSE Await(s1, "getBalance")

\* lines 75-91: the namehash, the short-circuit and the balance request
AfterResolve(st, nm, ra) ==
  LET s1 == IF NamehashThrows(nm) THEN st
            ELSE addLog(st, "info", "namehash: ", <<NamehashText(nm)>>)
  IN  IF ra = NoAddress
      THEN Return(clearProfile(addLog(s1, "error", "No address available for ", <<nm>>)))
      ELSE Await(s1, "getBalance")

\* lines 271-272: the catch block of the whole procedure
CatchBlock(st) == Return(addLog(st, "error", "Lookup failed: ", <<ErrText>>))

\* Mutant of FinallyBlock: the flag is left as it is.
FinallyBlockMissing(st) == st

\* lines 273-275: the finally block
FinallyBlock(st) == setLoading(st, FALSE)

\* try { ... } catch { ... } finally { ... } around a stretch of the body:
\* where the invocation is afterwards and what became of its promise.
TryCatchFinally(r) ==
  LET c == IF r.at = "throw" THEN CatchBlock(r.st) ELSE r
  IN  IF c.at \in Calls
      THEN [st |-> c.st, pc |-> c.at, promise |-> "pending"]
      ELSE [st |-> FinallyBlock(c.st), pc |-> "done",
            promise |-> IF c.at = "throw" THEN "rejected" ELSE "fulfilled"]

\* Mutant of doLookupStart: every input is sent to resolveName.
doLookupStartAlwaysResolves(st, nm, providerOk) ==
  LET s1 == addLog(setShowModal(setTransactions(clearProfile(setLoading(st, TRUE)),
                                                <<>>), TRUE),
                   "info", "Resolving ENS name: ", <<nm>>)
  IN  TryCatchFinally(IF ~providerOk THEN Throw(s1) ELSE Await(s1, "resolveName"))

\* lines 49-73: doLookup(nm) for a non-empty nm, up to its first await.
\* providerOk: whether new ethers.JsonRpcProvider(...) returned.
doLookupStart(st, nm, providerOk) ==
  LET s1 == addLog(setShowModal(setTransactions(clearProfile(setLoading(st, TRUE)),
                                                <<>>), TRUE),
                   "info", "Resolving ENS name: ", <<nm>>)
  IN  TryCatchFinally(
        IF ~providerOk THEN Throw(s1)
        ELSE IF IsAddress(nm)
        THEN AfterResolve(addLog(s1, "info", "Input is an address: ", <<nm>>), nm, nm)
        ELSE Await(s1, "resolveName"))

\* ------------------------------------------------------------------------
\* Bounds of the sessions explored
\* ------------------------------------------------------------------------

\* Form submits and node clicks per session: the calls of doLookup, the
\* empty ones included, and the graphs built.
MaxEvents == 3
\* In a session with overlapping lookups: the times a suspended invocation
\* resumes while another that ran after it is still in flight.
MaxSwitches == 0

\* ------------------------------------------------------------------------
\* doLookup: one action per await, taken when the awaited call settles
\* ------------------------------------------------------------------------

InFlight(l) == pc[l] \in Calls

\* Whether invocation l may resume from `call` with an outcome that is the
\* nominal one or not. limited: the session is one of overlapping lookups,
\* explored with the nominal outcome of every call and a bounded number of
\* switches between the invocations.
MayResume(l, call, nominal, limited) ==
  /\ pc[l] = call
  /\ limited =>
       /\ nominal
       /\ \/ running = l
          \/ \A m \in Lookups \ {l} : ~InFlight(m)
          \/ switches < MaxSwitches

\* Invocation l resumes with outcome o (and, for response.json(), the body
\* it yielded) and runs the stretch r of the body of doLookup.
ResumeWith(l, o, body, limited, r) ==
  LET t == TryCatchFinally(r)
  IN  /\ logs' = t.st.logs
      /\ profile' = t.st.profile
      /\ transactions' = t.st.transactions
      /\ loading' = t.st.loading
      /\ showModal' = t.st.showModal
      /\ pc' = [pc EXCEPT ![l] = t.pc]
      /\ promise' = [promise EXCEPT ![l] = t.promise]
      /\ issued' = IF t.pc \in Calls THEN issued \cup {<<l, t.pc>>} ELSE issued
      /\ settled' = [lookup |-> l, call |-> pc[l], outcome |-> o, body |-> body]
      /\ running' = IF limited THEN l ELSE running
      /\ switches' = IF limited /\ running # l /\ \E m \in Lookups \ {l} : InFlight(m)
                     THEN switches + 1 ELSE switches
      /\ UNCHANGED <<ui, name, calls, emptyCalls>>

Resume(l, o, limited, r) == ResumeWith(l, o, NullBody, limited, r)

\* What resolveName(nm) does when the network is sound: it throws on a name
\* that cannot be normalised and yields null for a name without a record.
NominalResolve(nm) ==
  IF NamehashThrows(nm) THEN "throw" ELSE IF Registered(nm) THEN "ok" ELSE "null"

\* lines 67-72 and on
ResolveNameSettles(l, limited) ==
  \E o \in {"ok", "null", "throw"} :
    /\ MayResume(l, "resolveName", o = NominalResolve(name[l]), limited)
    /\ o = "ok" => Registered(name[l])
    /\ o = "null" => ~NamehashThrows(name[l])
    /\ LET ra == IF o = "ok" THEN AddressOf(name[l]) ELSE NoAddress
           s1 == IF o = "throw"
                 THEN addLog(Cells, "error", "resolveName failed: ", <<ErrText>>)
                 ELSE addLog(Cells, "info", "Resolved address: ",
                             <<IF ra = NoAddress THEN NullText ELSE ra>>)
       IN  /\ resolvedAddress' = [resolvedAddress EXCEPT ![l] = ra]
           /\ Resume(l, o, limited,
                     AfterResolve(s1, name[l], ra))
    /\ UNCHANGED resolver

\* lines 90-98, then the getCode request
GetBalanceSettles(l, limited) ==
  \E o \in {"ok", "throw"} :
    /\ MayResume(l, "getBalance", o = "ok", limited)
    /\ LET balStr == FormatEther(BalanceOf(resolvedAddress[l])) \o EthSuffix
           s1 == IF o = "ok"
                 THEN mergeProfile(addLog(Cells, "info", "balance: ", <<balStr>>),
                                   [address |-> resolvedAddress[l], balance |-> balStr])
                 ELSE addLog(Cells, "error", "getBalance failed: ", <<ErrText>>)
       IN  Resume(l, o, limited, Await(s1, "getCode"))
    /\ UNCHANGED <<resolvedAddress, resolver>>

\* The bytecode getCode returns for an account without code.
EmptyCode == <<"0", "x">>

\* lines 100-105, then the getTransactionCount request
GetCodeSettles(l, limited) ==
  \E o \in {"ok", "throw"} :
    /\ MayResume(l, "getCode", o = "ok", limited)
    /\ LET s1 == IF o = "ok"
                 THEN addLog(Cells, "info", "code length: ", <<NatToStr(Len(EmptyCode))>>)
                 ELSE addLog(Cells, "error", "getCode failed: ", <<ErrText>>)
       IN  Resume(l, o, limited, Await(s1, "getTransactionCount"))
    /\ UNCHANGED <<resolvedAddress, resolver>>

\* The nonce getTransactionCount returns.
TxCountOf(addr) == IF addr[3] = "a" THEN 7 ELSE 0

\* lines 107-112, then the lookupAddress request
GetTransactionCountSettles(l, limited) ==
  \E o \in {"ok", "throw"} :
    /\ MayResume(l, "getTransactionCount", o = "ok", limited)
    /\ LET s1 == IF o = "ok"
                 THEN addLog(Cells, "info", "transactionCount: ",
                             <<NatToStr(TxCountOf(resolvedAddress[l]))>>)
                 ELSE addLog(Cells, "error", "getTransactionCount failed: ", <<ErrText>>)
       IN  Resume(l, o, limited, Await(s1, "lookupAddress"))
    /\ UNCHANGED <<resolvedAddress, resolver>>

\* lines 114-121, then the getResolver request
LookupAddressSettles(l, limited) ==
  \E o \in {"ok", "null", "throw"} :
    /\ MayResume(l, "lookupAddress", o = "ok", limited)
    /\ LET reverse == ReverseOf(resolvedAddress[l])
           s1 == CASE o = "ok" ->
                        mergeProfile(addLog(Cells, "info", "reverse name: ", <<reverse>>),
                                     [reverse |-> reverse])
                   [] o = "null" -> addLog(Cells, "info", "reverse name: ", <<NullText>>)
                   [] o = "throw" -> addLog(Cells, "error", "lookupAddress failed: ", <<ErrText>>)
       IN  Resume(l, o, limited, Await(s1, "getResolver"))
    /\ UNCHANGED <<resolvedAddress, resolver>>

\* lines 123-137 and on. A resolver of the first shape is the nominal one.
GetResolverSettles(l, limited) ==
  \E o \in {"ok", "null", "throw"}, shape \in ResolverShapes :
    LET nominal == o = "ok" /\ shape.getContentHash
        rs == IF o = "ok" THEN ResolverFor(name[l], shape) ELSE NoResolver
        s1 == CASE o = "ok" ->
                     mergeProfile(addLog(Cells, "info", "resolver address: ", <<rs.address>>),
                                  [resolver |-> rs.address])
                [] o = "null" -> addLog(Cells, "info", "No resolver found for ", <<name[l]>>)
                [] o = "throw" -> addLog(Cells, "error", "getResolver failed: ", <<ErrText>>)
    IN  /\ MayResume(l, "getResolver", nominal, limited)
        /\ o # "ok" => shape.getContentHash
        /\ resolver' = [resolver EXCEPT ![l] = rs]
        /\ Resume(l, o, limited, AfterResolver(s1, rs, resolvedAddress[l]))
        /\ UNCHANGED resolvedAddress

\* The content hash record, logged only.
ContentHashText == <<"i", "p", "f", "s", ":", "/", "/", "c">>

\* lines 141-157
GetContentHashSettles(l, limited) ==
  \E o \in {"ok", "throw"} :
    /\ MayResume(l, "getContentHash", o = "ok", limited)
    /\ LET s1 == IF o = "ok"
                 THEN addLog(Cells, "info", "contentHash: ", <<ContentHashText>>)
                 ELSE addLog(Cells, "error", "getContentHash failed: ", <<ErrText>>)
       IN  Resume(l, o, limited, Await(s1, "getText_name"))
    /\ UNCHANGED <<resolvedAddress, resolver>>

\* One of the four blocks of lines 155-202: the text record `key` came back
\* with outcome o ("ok": a non-empty value, "empty", "throw").
TextFetched(st, nm, key, o) ==
  IF o = "ok"
  THEN LET v == IF key = "avatar" THEN NormalizeAvatar(TextOf(nm, key))
                ELSE TextOf(nm, key)
       IN  mergeProfile(addLog(st, "info", "profile." \o key \o " = ", <<v>>),
                        (key :> v))
  ELSE st

TextOutcomes == {"ok", "empty", "throw"}

\* lines 156-168
GetTextNameSettles(l, limited) ==
  \E o \in TextOutcomes :
    /\ MayResume(l, "getText_name", o = "ok", limited)
    /\ Resume(l, o, limited,
              Await(TextFetched(Cells, name[l], "name", o), "getText_url"))
    /\ UNCHANGED <<resolvedAddress, resolver>>

\* lines 167-179
GetTextUrlSettles(l, limited) ==
  \E o \in TextOutcomes :
    /\ MayResume(l, "getText_url", o = "ok", limited)
    /\ Resume(l, o, limited,
              Await(TextFetched(Cells, name[l], "url", o), "getText_avatar"))
    /\ UNCHANGED <<resolvedAddress, resolver>>

\* Mutant of GetTextAvatarSettles: a throw of getText('avatar') is caught by
\* the enclosing try only, which skips the description.
GetTextAvatarAborts(l, limited) ==
  \E o \in TextOutcomes :
    /\ MayResume(l, "getText_avatar", o = "ok", limited)
    /\ Resume(l, o, limited,
              IF o = "throw"
              THEN ResolverAddress(addLog(Cells, "error", "profile fields fetch failed: ",
                                          <<ErrText>>),
                                   resolver[l], resolvedAddress[l])
              ELSE Await(TextFetched(Cells, name[l], "avatar", o), "getText_description"))
    /\ UNCHANGED <<resolvedAddress, resolver>>

\* lines 178-195
GetTextAvatarSettles(l, limited) ==
  \E o \in TextOutcomes :
    /\ MayResume(l, "getText_avatar", o = "ok", limited)
    /\ Resume(l, o, limited,
              Await(TextFetched(Cells, name[l], "avatar", o), "getText_description"))
    /\ UNCHANGED <<resolvedAddress, resolver>>

\* lines 194-220
GetTextDescriptionSettles(l, limited) ==
  \E o \in TextOutcomes :
    /\ MayResume(l, "getText_description", o = "ok", limited)
    /\ Resume(l, o, limited,
              ResolverAddress(TextFetched(Cells, name[l], "description", o),
                              resolver[l], resolvedAddress[l]))
    /\ UNCHANGED <<resolvedAddress, resolver>>

\* lines 208-224: resolver.getAddress() or resolver.addr('60') settled
ResolverAddressSettles(l, limited) ==
  \E o \in {"ok", "throw"}, call \in {"getAddress", "addr_60"} :
    /\ MayResume(l, call, o = "ok", limited)
    /\ LET s1 == CASE o = "throw" ->
                        addLog(Cells, "error", "resolver address lookup failed: ", <<ErrText>>)
                   [] o = "ok" /\ call = "getAddress" ->
                        addLog(Cells, "info", "resolver.getAddress() => ",
                               <<resolvedAddress[l]>>)
                   [] o = "ok" /\ call = "addr_60" ->
                        addLog(Cells, "info", "resolver.addr(60) => ",
                               <<resolvedAddress[l]>>)
       IN  Resume(l, o, limited, CoinLoop60(s1, resolver[l], resolvedAddress[l]))
    /\ UNCHANGED <<resolvedAddress, resolver>>

\* Mutant of CoinAddressSettles: the try is around the loop, so a failure
\* for one coin type ends the loop.
CoinAddressEndsLoop(l, limited) ==
  \E o \in {"ok", "throw"}, coin \in {60, 61} :
    /\ MayResume(l, "getAddress_" \o ToString(coin), o = "ok", limited)
    /\ LET s1 == IF o = "ok"
                 THEN addLog(Cells, "info", "resolver.getAddress(coin) => ",
                             <<NatToStr(coin),
                               IF coin = 60 THEN resolvedAddress[l] ELSE NullText>>)
                 ELSE addLog(Cells, "error", "resolver.getAddress(coin) failed: ",
                             <<NatToStr(coin), ErrText>>)
       IN  Resume(l, o, limited,
                  IF coin = 60 /\ o = "ok"
                  THEN CoinLoop61(s1, resolver[l], resolvedAddress[l])
                  ELSE FetchHistory(s1, resolvedAddress[l]))
    /\ UNCHANGED <<resolvedAddress, resolver>>

\* lines 224-233: resolver.getAddress(coin) settled, for coin 60 and 61
CoinAddressSettles(l, limited) ==
  \E o \in {"ok", "throw"}, coin \in {60, 61} :
    /\ MayResume(l, "getAddress_" \o ToString(coin), o = "ok", limited)
    /\ LET s1 == IF o = "ok"
                 THEN addLog(Cells, "info", "resolver.getAddress(coin) => ",
                             <<NatToStr(coin),
                               IF coin = 60 THEN resolvedAddress[l] ELSE NullText>>)
                 ELSE addLog(Cells, "error", "resolver.getAddress(coin) failed: ",
                             <<NatToStr(coin), ErrText>>)
       IN  Resume(l, o, limited,
                  IF coin = 60 THEN CoinLoop61(s1, resolver[l], resolvedAddress[l])
                  ELSE FetchHistory(s1, resolvedAddress[l]))
    /\ UNCHANGED <<resolvedAddress, resolver>>

\* lines 266-269: the catch block of the transaction history
HistoryCatch(st) ==
  Return(setTransactions(
           addLog(st, "error", "Failed to fetch transaction history: ", <<ErrText>>),
           <<>>))

\* line 247: fetch(etherscanUrl) settled
FetchSettles(l, limited) ==
  \E o \in {"ok", "throw"} :
    /\ MayResume(l, "fetch", o = "ok", limited)
    /\ Resume(l, o, limited,
              IF o = "ok" THEN Await(Cells, "json") ELSE HistoryCatch(Cells))
    /\ UNCHANGED <<resolvedAddress, resolver>>

\* lines 251-258: one record of the result as a Transaction
ToTransaction(tx) ==
  [hash |-> tx.hash, from |-> tx.from, to |-> tx.to,
   value |-> FormatEther(tx.value),
   blockNumber |-> ParseInt(tx.blockNumber),
   timestamp |-> ParseInt(tx.timeStamp)]

UnknownError == <<"U", "n", "k", "n", "o", "w", "n", " ", "e", "r", "r", "o", "r">>

\* Mutant of HistoryLoaded: an unsuccessful response is reported as an error.
HistoryLoadedAsError(st, data) ==
  IF data.isNull THEN HistoryCatch(st)
  ELSE IF data.status = "1" /\ data.isArray
  THEN IF \E k \in 1..Len(data.result) : ~IsWei(data.result[k].value)
       THEN HistoryCatch(st)
       ELSE LET txsWithDetails == [k \in 1..Len(data.result) |-> ToTransaction(data.result[k])]
            IN  Return(addLog(setTransactions(st, txsWithDetails),
                              "info", "Found N recent transactions",
                              <<NatToStr(Len(txsWithDetails))>>))
  ELSE Return(setTransactions(
                addLog(st, "error", "No transactions found or Etherscan API error: ",
                       <<IF data.message # <<>> THEN data.message ELSE UnknownError>>),
                <<>>))

\* lines 250-265: the body of the response is `data`
HistoryLoaded(st, data) ==
  IF data.isNull THEN HistoryCatch(st)
  ELSE IF data.status = "1" /\ data.isArray
  THEN IF \E k \in 1..Len(data.result) : ~IsWei(data.result[k].value)
       THEN HistoryCatch(st)
       ELSE LET txsWithDetails == [k \in 1..Len(data.result) |-> ToTransaction(data.result[k])]
            IN  Return(addLog(setTransactions(st, txsWithDetails),
                              "info", "Found N recent transactions",
                              <<NatToStr(Len(txsWithDetails))>>))
  ELSE Return(setTransactions(
                addLog(st, "info", "No transactions found or Etherscan API error: ",
                       <<IF data.message # <<>> THEN data.message ELSE UnknownError>>),
                <<>>))

\* The body that counts as the nominal answer.
NominalBody(addr) ==
  [isNull |-> FALSE, status |-> "1", isArray |-> TRUE,
   result |-> RawTxs(addr, 2, TRUE), message |-> <<"O", "K">>]

\* line 248: response.json() settled
JsonSettles(l, limited) ==
  /\ pc[l] = "json"
  /\ \E o \in {"ok", "throw"} :
       \E data \in IF o = "ok" THEN JsonBodies(resolvedAddress[l])
                   ELSE {NominalBody(resolvedAddress[l])} :
         LET nominal == o = "ok" /\ data = NominalBody(resolvedAddress[l])
         IN  /\ MayResume(l, "json", nominal, limited)
             /\ ResumeWith(l, o, IF o = "ok" THEN data ELSE NullBody, limited,
                           IF o = "ok" THEN HistoryLoaded(Cells, data)
                           ELSE HistoryCatch(Cells))
  /\ UNCHANGED <<resolvedAddress, resolver>>

\* One step of invocation l.
LookupStep(l, limited) ==
  \/ ResolveNameSettles(l, limited)
  \/ GetBalanceSettles(l, limited)
  \/ GetCodeSettles(l, limited)
  \/ GetTransactionCountSettles(l, limited)
  \/ LookupAddressSettles(l, limited)
  \/ GetResolverSettles(l, limited)
  \/ GetContentHashSettles(l, limited)
  \/ GetTextNameSettles(l, limited)
  \/ GetTextUrlSettles(l, limited)
  \/ GetTextAvatarSettles(l, limited)
  \/ GetTextDescriptionSettles(l, limited)
  \/ ResolverAddressSettles(l, limited)
  \/ CoinAddressSettles(l, limited)
  \/ FetchSettles(l, limited)
  \/ JsonSettles(l, limited)

\* ------------------------------------------------------------------------
\* The handlers
\* ------------------------------------------------------------------------

\* The graph submits so far: each left its entry in the log.
GraphSubmits ==
  Cardinality({i \in 1..Len(logs) : logs[i].text.msg = "Created graph with N nodes and M edges"})

\* The call doLookup(nm) made by a handler that leaves the cells as st0:
\* line 50 for an empty nm, else the code up to the first await, run by
\* the first idle invocation among slots.
doLookup(st0, nm, slots, limited) ==
  /\ calls + GraphSubmits < MaxEvents
  /\ calls' = calls + 1
  /\ IF nm = <<>>
     THEN /\ emptyCalls' = emptyCalls + 1
          /\ logs' = st0.logs
          /\ profile' = st0.profile
          /\ transactions' = st0.transactions
          /\ loading' = st0.loading
          /\ showModal' = st0.showModal
          /\ UNCHANGED <<locals, issued, settled, running, switches>>
     ELSE \E providerOk \in BOOLEAN :
            LET idle == {l \in slots : pc[l] = "idle"}
                l == CHOOSE i \in idle : \A j \in idle : i <= j
                t == doLookupStart(st0, nm, providerOk)
            IN  /\ idle # {}
                /\ limited => providerOk
                /\ logs' = t.st.logs
                /\ profile' = t.st.profile
                /\ transactions' = t.st.transactions
                /\ loading' = t.st.loading
                /\ showModal' = t.st.showModal
                /\ pc' = [pc EXCEPT ![l] = t.pc]
                /\ name' = [name EXCEPT ![l] = nm]
                /\ resolvedAddress' =
                     [resolvedAddress EXCEPT ![l] = IF IsAddress(nm) THEN nm ELSE NoAddress]
                /\ resolver' = [resolver EXCEPT ![l] = NoResolver]
                /\ promise' = [promise EXCEPT ![l] = t.promise]
                /\ issued' = IF t.pc \in Calls THEN issued \cup {<<l, t.pc>>} ELSE issued
                /\ running' = IF limited THEN l ELSE running
                /\ UNCHANGED <<emptyCalls, settled, switches>>

\* Mutant of handleGraphSubmit: building a graph also resets the results
\* of the last lookup.
handleGraphSubmitResets ==
  LET g == parseGraphInput(query)
  IN  /\ calls + GraphSubmits < MaxEvents
      /\ graphNodes' = g.nodes
      /\ graphEdges' = g.edges
      /\ logs' = addLog(Cells, "info", "Created graph with N nodes and M edges",
                        <<NatToStr(Len(g.nodes)), NatToStr(Len(g.edges))>>).logs
      /\ profile' = NullProfile
      /\ transactions' = <<>>
      /\ UNCHANGED <<query, mode, selectedNode, loading, showModal, locals, env>>

\* lines 313-318
handleGraphSubmit ==
  LET g == parseGraphInput(query)
  IN  /\ calls + GraphSubmits < MaxEvents
      /\ graphNodes' = g.nodes
      /\ graphEdges' = g.edges
      /\ logs' = addLog(Cells, "info", "Created graph with N nodes and M edges",
                        <<NatToStr(Len(g.nodes)), NatToStr(Len(g.edges))>>).logs
      /\ UNCHANGED <<query, mode, selectedNode, profile, transactions, loading,
                     showModal, locals, env>>

\* lines 327-334; the form is disabled while loading (lines 365, 368)
onSubmit(slots, limited) ==
  /\ ~loading
  /\ IF mode = "graph"
     THEN handleGraphSubmit
     ELSE /\ doLookup(Cells, Trim(query), slots, limited)
          /\ UNCHANGED ui

\* lines 320-325; the graph is rendered in graph mode with a node (line 373)
handleNodeClick(slots, limited) ==
  /\ mode = "graph"
  /\ Len(graphNodes) > 0
  /\ \E k \in 1..Len(graphNodes) :
       /\ selectedNode' = <<graphNodes[k].id>>
       /\ doLookup(setShowModal(Cells, TRUE), graphNodes[k].title, slots, limited)
  /\ UNCHANGED <<query, mode, graphNodes, graphEdges>>

\* lines 342-355: the mode buttons
setMode ==
  /\ \E m \in {"single", "graph"} : m # mode /\ mode' = m
  /\ UNCHANGED <<query, graphNodes, graphEdges, selectedNode, shared, locals, env>>

\* The strings typed into the search box.
GraphQuery == <<"(", "a", ".", "e", "t", "h", ",", " ", "b", ".", "e", "t", "h", ")">>
Queries == {GraphQuery}

\* line 364: the search box, disabled while loading
setQuery ==
  /\ ~loading
  /\ \E q \in Queries : q # query /\ query' = q
  /\ UNCHANGED <<mode, graphNodes, graphEdges, selectedNode, shared, locals, env>>

\* lines 383-385: the modal is closed
closeModal ==
  /\ showModal
  /\ showModal' = FALSE
  /\ UNCHANGED <<ui, logs, profile, transactions, loading, locals, env>>

\* ------------------------------------------------------------------------
\* Specifications
\* ------------------------------------------------------------------------

\* lines 24-40: the state after construction, the search box aside
InitCells ==
  /\ logs = <<>>
  /\ profile = NullProfile
  /\ transactions = <<>>
  /\ loading = FALSE
  /\ showModal = FALSE
  /\ graphNodes = <<>>
  /\ graphEdges = <<>>
  /\ selectedNode = <<>>
  /\ pc = [l \in Lookups |-> "idle"]
  /\ name = [l \in Lookups |-> <<>>]
  /\ resolvedAddress = [l \in Lookups |-> NoAddress]
  /\ resolver = [l \in Lookups |-> NoResolver]
  /\ promise = [l \in Lookups |-> "none"]
  /\ issued = {}
  /\ settled = [lookup |-> 0, call |-> "none", outcome |-> "none", body |-> NullBody]
  /\ calls = 0
  /\ emptyCalls = 0
  /\ running = 0
  /\ switches = 0

\* lines 22-23
Init ==
  /\ query = <<>>
  /\ mode = "single"
  /\ InitCells

\* The application: every handler, lookups that may overlap.
Next ==
  \/ setQuery
  \/ setMode
  \/ onSubmit(Lookups, TRUE)
  \/ handleNodeClick(Lookups, TRUE)
  \/ closeModal
  \/ \E l \in Lookups : LookupStep(l, TRUE)

Spec == Init /\ [][Next]_vars

\* The application with a query in the search box that is left as it is:
\* a pair whose first token is blank, so that one node has the empty title.
BlankTokenQuery == <<"(", " ", ",", "a", ".", "e", "t", "h", ")">>

InitGraph ==
  /\ query = BlankTokenQuery
  /\ mode \in {"single", "graph"}
  /\ InitCells

NextGraph ==
  \/ setMode
  \/ onSubmit(Lookups, TRUE)
  \/ handleNodeClick(Lookups, TRUE)
  \/ closeModal
  \/ \E l \in Lookups : LookupStep(l, TRUE)

SpecGraph == InitGraph /\ [][NextGraph]_vars

\* One lookup from the form, every call free to fail.
AddrC == MkAddr("c")
LookupQueries ==
  { <<>>, <<" ", " ">>, <<" ">> \o NameA \o <<" ">>, NameB, AddrC,
    <<"a", " ", "b">>, <<"x", ".", "e", "t", "h">> }

InitLookup ==
  /\ query \in LookupQueries
  /\ mode = "single"
  /\ InitCells

NextLookup ==
  \/ onSubmit({1}, FALSE)
  \/ LookupStep(1, FALSE)

SpecLookup == InitLookup /\ [][NextLookup]_vars

\* Every network call a lookup awaits settles, with a result or an error:
\* a suspended invocation is resumed.
FairSpecLookup == SpecLookup /\ WF_vars(LookupStep(1, FALSE))

\* ------------------------------------------------------------------------
\* The graph form alone: the search box holds any of the inputs below and
\* the form is submitted in graph mode.
\* ------------------------------------------------------------------------

\* Every string over ParseAlphabet of at most MaxInputLen characters.
MaxInputLen == 5
ParseAlphabet == {"(", ")", ",", " ", "A"}
ShortInputs == UNION {[1..n -> ParseAlphabet] : n \in 0..MaxInputLen}

\* Lists of at most MaxPairs pairs of one-letter tokens. The tokens are
\* numbered in the order they first occur, so that every pattern of
\* repeated tokens and repeated pairs occurs once.
MaxPairs == 3
Letters == <<"A", "B", "C", "D", "E", "F", "G", "H", "I", "J", "K", "L">>

SeqMax(s) == IF s = <<>> THEN 0 ELSE CHOOSE m \in Range(s) : \A x \in Range(s) : x <= m

RECURSIVE TokenPatterns(_)
TokenPatterns(n) ==
  IF n = 0 THEN {<<>>}
  ELSE UNION {{Append(s, k) : k \in 1..(SeqMax(s) + 1)} : s \in TokenPatterns(n - 1)}

\* "(t1,t2)" for the pair of tokens at 2k-1 and 2k of pattern s; spaced: with
\* blanks around the tokens.
RECURSIVE PairsText(_, _, _)
PairsText(s, k, spaced) ==
  IF 2 * k > Len(s) THEN <<>>
  ELSE LET pad == IF spaced THEN <<" ">> ELSE <<>>
       IN  (IF k > 1 THEN <<",">> ELSE <<>>)
             \o <<"(">> \o pad \o <<Letters[s[2 * k - 1]]>> \o pad
             \o <<",">> \o pad \o <<Letters[s[2 * k]]>> \o pad \o <<")">>
             \o PairsText(s, k + 1, spaced)

ListInputs ==
  {<<"[">> \o PairsText(s, 1, spaced) \o <<"]">> :
     s \in UNION {TokenPatterns(2 * n) : n \in 1..MaxPairs}, spaced \in BOOLEAN}

\* The inputs the specification names.
ExampleInput ==
  <<"[", "(", "A", ",", "B", ")", ",", "(", "C", ",", "D", ")", ",",
    "(", "C", ",", "B", ")", ",", "(", "D", ",", "A", ")", "]">>
GarbageInput ==
  <<"g", "a", "r", "b", "a", "g", "e", ",", " ", "n", "o", " ",
    "p", "a", "r", "e", "n", "s">>
ExtraCommaInput == <<"(", "A", ",", "B", ",", "C", ")">>
ExtraParenInput == <<"(", "A", ")", "(", "B", ",", "C", ")">>

ParseInputs ==
  ShortInputs \cup ListInputs
    \cup {ExampleInput, GarbageInput, ExtraCommaInput, ExtraParenInput}

InitParse ==
  /\ query \in ParseInputs
  /\ mode = "graph"
  /\ InitCells

NextParse == onSubmit(Lookups, TRUE)

SpecParse == InitParse /\ [][NextParse]_vars

\* ------------------------------------------------------------------------
\* Properties of parseGraphInput (checked under SpecParse)
\* ------------------------------------------------------------------------

\* The graph on display is the one built from the search box.
GraphBuilt == GraphSubmits > 0

\* The endpoints of the edges, in order: source, target, source, ...
Endpoints ==
  [k \in 1..(2 * Len(graphEdges)) |->
     IF k % 2 = 1 THEN graphEdges[(k + 1) \div 2].source
     ELSE graphEdges[k \div 2].target]

\* Where token t first occurs among the endpoints.
FirstSeen(t) ==
  CHOOSE k \in 1..Len(Endpoints) :
    Endpoints[k] = t /\ \A j \in 1..(k - 1) : Endpoints[j] # t

\* The letters of the search box, in order: for a well-formed list of pairs
\* of one-letter tokens these are the tokens.
IsLetter(c) == \E k \in 1..Len(Letters) : Letters[k] = c
QueryLetters == SelectSeq(query, IsLetter)

C8_ExampleNodes ==
  << [id |-> <<"A">>, title |-> <<"A">>, type |-> "empty", x |-> 100, y |-> 100],
     [id |-> <<"B">>, title |-> <<"B">>, type |-> "empty", x |-> 300, y |-> 100],
     [id |-> <<"C">>, title |-> <<"C">>, type |-> "empty", x |-> 500, y |-> 100],
     [id |-> <<"D">>, title |-> <<"D">>, type |-> "empty", x |-> 700, y |-> 100] >>

C8_ExampleEdges ==
  << [source |-> <<"A">>, target |-> <<"B">>, type |-> "emptyEdge"],
     [source |-> <<"C">>, target |-> <<"D">>, type |-> "emptyEdge"],
     [source |-> <<"C">>, target |-> <<"B">>, type |-> "emptyEdge"],
     [source |-> <<"D">>, target |-> <<"A">>, type |-> "emptyEdge"] >>

\* C8: the nodes parseGraphInput returns are the distinct tokens of the
\* matched pairs, without duplicates and in first-seen order (source before
\* target), node i (0-based) with id = title = token at
\* ((i mod 5) * 200 + 100, floor(i / 5) * 150 + 100); the edges are the
\* matched pairs in match order, repeated pairs kept: for a well-formed list
\* of pairs of one-letter tokens, edge k joins the letters 2k-1 and 2k of the
\* input. The example of the specification yields A, B, C, D at (100,100),
\* (300,100), (500,100), (700,100) and the four edges in order; an input
\* without a pair yields no node and no edge.
C8_ParseNodesAndEdges ==
  GraphBuilt =>
    /\ \A i, j \in 1..Len(graphNodes) : graphNodes[i].id = graphNodes[j].id => i = j
    /\ {graphNodes[i].id : i \in 1..Len(graphNodes)} = Range(Endpoints)
    /\ \A i, j \in 1..Len(graphNodes) :
         i < j => FirstSeen(graphNodes[i].id) < FirstSeen(graphNodes[j].id)
    /\ \A i \in 1..Len(graphNodes) :
         /\ graphNodes[i].title = graphNodes[i].id
         /\ graphNodes[i].x = ((i - 1) % 5) * 200 + 100
         /\ graphNodes[i].y = ((i - 1) \div 5) * 150 + 100
    /\ query \in ListInputs =>
         /\ 2 * Len(graphEdges) = Len(QueryLetters)
         /\ \A k \in 1..Len(graphEdges) :
              /\ graphEdges[k].source = <<QueryLetters[2 * k - 1]>>
              /\ graphEdges[k].target = <<QueryLetters[2 * k]>>
    /\ query = ExampleInput =>
         graphNodes = C8_ExampleNodes /\ graphEdges = C8_ExampleEdges
    /\ ("(" \notin Range(query) \/ "," \notin Range(query) \/ ")" \notin Range(query)) =>
         graphNodes = <<>> /\ graphEdges = <<>>

\* C8 witness: a graph of three pairs with six distinct tokens was built,
\* the sixth node on the second row of the grid.
C8_Witness ==
  /\ GraphBuilt
  /\ Len(graphEdges) = 3
  /\ Len(graphNodes) = 6
  /\ graphNodes[6].x = 100
  /\ graphNodes[6].y = 250

\* C9: no node id and no edge endpoint parseGraphInput returns holds a comma
\* or a closing parenthesis.
C9_TokensHoldNoSeparator ==
  GraphBuilt =>
    /\ \A i \in 1..Len(graphNodes) :
         "," \notin Range(graphNodes[i].id) /\ ")" \notin Range(graphNodes[i].id)
    /\ \A k \in 1..Len(graphEdges) :
         /\ "," \notin Range(graphEdges[k].source) /\ ")" \notin Range(graphEdges[k].source)
         /\ "," \notin Range(graphEdges[k].target) /\ ")" \notin Range(graphEdges[k].target)

\* ------------------------------------------------------------------------
\* Properties of one lookup (checked under SpecLookup)
\* ------------------------------------------------------------------------

CallsIssuedBy(l) == {c \in Calls : <<l, c>> \in issued}

\* The entries of the log with this message about this name.
EntriesAbout(msg, nm) ==
  {i \in 1..Len(logs) : logs[i].text.msg = msg /\ logs[i].text.args = <<nm>>}

\* Invocation l sent its name to resolveName and the call has settled
\* without an address.
ResolvedNothing(l) ==
  /\ <<l, "resolveName">> \in issued
  /\ pc[l] # "resolveName"
  /\ resolvedAddress[l] = NoAddress

\* C1: when name resolution leaves the resolved address unset, the lookup
\* ends there: the profile is null, the newest log entry is the one error
\* entry "No address available for {input}", and none of the balance, code,
\* transaction count, reverse lookup, resolver or transaction history calls
\* was issued.
C1_NoAddressShortCircuit ==
  \A l \in Lookups :
    ResolvedNothing(l) =>
      /\ pc[l] = "done"
      /\ profile = NullProfile
      /\ logs # <<>>
      /\ Head(logs).level = "error"
      /\ Head(logs).text = [msg |-> "No address available for ", args |-> <<name[l]>>]
      /\ Cardinality(EntriesAbout("No address available for ", name[l])) = 1
      /\ CallsIssuedBy(l) = {"resolveName"}

\* C1 witness: resolveName came back with null and the lookup is over.
C1_Witness ==
  /\ ResolvedNothing(1)
  /\ settled = [lookup |-> 1, call |-> "resolveName", outcome |-> "null", body |-> NullBody]
  /\ pc[1] = "done"

\* The catch block of the whole procedure ran: no provider was to be had.
LookupFailed == \E i \in 1..Len(logs) : logs[i].text.msg = "Lookup failed: "

\* C3: a lookup of an address-formatted input never issues resolveName: the
\* resolved address is the input and the lookup goes on to the balance.
C3_AddressSkipsResolution ==
  \A l \in Lookups :
    (pc[l] # "idle" /\ IsAddress(name[l])) =>
      /\ <<l, "resolveName">> \notin issued
      /\ resolvedAddress[l] = name[l]
      /\ EntriesAbout("No address available for ", name[l]) = {}
      /\ \/ <<l, "getBalance">> \in issued
         \/ pc[l] = "done" /\ CallsIssuedBy(l) = {} /\ LookupFailed

\* C3 witness: a lookup of an address got as far as its resolver.
C3_Witness ==
  /\ IsAddress(name[1])
  /\ pc[1] = "getResolver"
  /\ profile.null = FALSE

\* C10: a call of doLookup with the empty string (the form submitted in
\* single mode with nothing or only blanks in the search box) appends no log
\* entry, leaves profile, transactions and loading as they were and issues no
\* call.
C10_EmptyLookupIsNoOp ==
  [][(calls' = calls + 1 /\ \A i \in 1..Len(query) : query[i] \in Whitespace)
       => /\ emptyCalls' = emptyCalls + 1
          /\ UNCHANGED <<logs, profile, transactions, loading, issued, pc>>]_vars

\* C10 witness: the form was submitted with only blanks in the search box.
C10_Witness ==
  /\ emptyCalls > 0
  /\ query # <<>>
  /\ logs = <<>>

\* The entries a step put in front of the log.
NewEntries == SubSeq(logs', 1, Len(logs') - Len(logs))

\* C2: every invocation of doLookup with a non-empty input completes,
\* whichever of its calls fail (whenever an invocation is suspended at a
\* call, a state follows in which none is, and a suspended invocation only
\* moves on to a next call or to its end); its promise is never rejected;
\* and the step that ends it, on every path, leaves the loading flag false.
C2_LookupCompletes ==
  /\ (\E l \in Lookups : pc[l] \in Calls) ~> (\A l \in Lookups : pc[l] \notin Calls)
  /\ [](\A l \in Lookups : /\ promise[l] # "rejected"
                           /\ pc[l] = "done" => promise[l] = "fulfilled")
  /\ [][\A l \in Lookups :
         /\ pc[l] \in Calls => pc'[l] \in Calls \cup {"done"}
         /\ (pc[l] # "done" /\ pc'[l] = "done") => loading' = FALSE]_vars

\* C2 witness: a lookup in which calls failed, the transaction history
\* among them, is over and the flag is down.
C2_Witness ==
  /\ pc[1] = "done"
  /\ promise[1] = "fulfilled"
  /\ ~loading
  /\ settled.call \in {"fetch", "json"}
  /\ settled.outcome = "throw"
  /\ \E i \in 1..Len(logs) : logs[i].text.msg = "getBalance failed: "

TextCalls == <<"getText_name", "getText_url", "getText_avatar", "getText_description">>
TextKeyOf == <<"name", "url", "avatar", "description">>
TextMessages == {"profile." \o TextKeyOf[k] \o " = " : k \in 1..4}

\* C4: each of the four text fetches, whatever its outcome, is followed by
\* the next step of the lookup (the next fetch, for the first three); one
\* that throws or comes back empty appends no log entry and writes no field
\* of the profile; one that comes back non-empty is merged into its own
\* field, the other fields left alone.
C4_TextFetchesIsolated ==
  [][\A l \in Lookups : \A k \in 1..4 :
       (pc[l] = TextCalls[k] /\ pc'[l] # pc[l]) =>
         /\ settled'.call = TextCalls[k]
         /\ pc'[l] \in Calls
         /\ <<l, pc'[l]>> \in issued'
         /\ k < 4 => pc'[l] = TextCalls[k + 1]
         /\ \A i \in 1..Len(NewEntries) : NewEntries[i].level # "error"
         /\ settled'.outcome \in {"empty", "throw"} =>
              /\ profile' = profile
              /\ k < 4 => logs' = logs
              /\ \A i \in 1..Len(NewEntries) : NewEntries[i].text.msg \notin TextMessages
         /\ settled'.outcome = "ok" =>
              /\ ~profile'.null
              /\ DOMAIN profile'.obj = DOMAIN profile.obj \cup {TextKeyOf[k]}
              /\ profile'.obj[TextKeyOf[k]] # <<>>
              /\ \A f \in DOMAIN profile.obj \ {TextKeyOf[k]} :
                   profile'.obj[f] = profile.obj[f]
              /\ \E i \in 1..Len(NewEntries) :
                   NewEntries[i].text.msg = "profile." \o TextKeyOf[k] \o " = "]_vars

\* C4 witness: getText('avatar') threw, the name is in the profile, and
\* the description is being fetched.
C4_Witness ==
  /\ pc[1] = "getText_description"
  /\ settled = [lookup |-> 1, call |-> "getText_avatar", outcome |-> "throw",
                body |-> NullBody]
  /\ ~profile.null
  /\ "name" \in DOMAIN profile.obj
  /\ "avatar" \notin DOMAIN profile.obj

\* C5: when the transaction history comes back with a status other than "1"
\* or a result that is no array, the transactions are set to empty and the
\* one entry logged is informational; when the request fails, they are set
\* to empty and an error entry is logged; either way the profile is left as
\* the earlier steps made it.
C5_HistoryFailureModes ==
  [][\A l \in Lookups :
       /\ ( /\ pc[l] = "json" /\ pc'[l] # "json"
            /\ settled'.outcome = "ok"
            /\ ~settled'.body.isNull
            /\ settled'.body.status # "1" \/ ~settled'.body.isArray )
          => /\ transactions' = <<>>
             /\ Len(NewEntries) = 1
             /\ Head(logs').level = "info"
             /\ Head(logs').text.msg = "No transactions found or Etherscan API error: "
             /\ profile' = profile
             /\ pc'[l] = "done"
       /\ (pc[l] = "fetch" /\ pc'[l] # "fetch" /\ settled'.outcome = "throw")
          => /\ transactions' = <<>>
             /\ Len(NewEntries) = 1
             /\ Head(logs').level = "error"
             /\ Head(logs').text.msg = "Failed to fetch transaction history: "
             /\ profile' = profile
             /\ pc'[l] = "done"]_vars

\* C5 witness: the history came back with status "0" in a lookup that had
\* put the balance in the profile.
C5_Witness ==
  /\ pc[1] = "done"
  /\ settled.call = "json"
  /\ settled.outcome = "ok"
  /\ ~settled.body.isNull
  /\ settled.body.status = "0"
  /\ transactions = <<>>
  /\ ~profile.null
  /\ "balance" \in DOMAIN profile.obj
  /\ Head(logs).level = "info"

\* ------------------------------------------------------------------------
\* Properties of the session (checked under Spec)
\* ------------------------------------------------------------------------

\* The invocation of doLookup started last.
Latest == CHOOSE l \in Lookups : pc[l] # "idle" /\ \A m \in Lookups : m > l => pc[m] = "idle"

\* The value a lookup of nm, resolved to ra, gives the field f of the profile.
FieldFrom(nm, ra, f) ==
  CASE f = "address"  -> ra
    [] f = "balance"  -> FormatEther(BalanceOf(ra)) \o EthSuffix
    [] f = "reverse"  -> ReverseOf(ra)
    [] f = "resolver" -> ResolverAddressOf(nm)
    [] f = "avatar"   -> NormalizeAvatar(TextOf(nm, f))
    [] OTHER          -> TextOf(nm, f)

\* C6: once every lookup has finished, every field of the profile and every
\* transaction derive from the input of the lookup started last: no earlier
\* lookup, still running when the last one started, wrote over them.
C6_LatestLookupOwnsResults ==
  ( /\ \E l \in Lookups : pc[l] = "done"
    /\ \A l \in Lookups : pc[l] \in {"idle", "done"} )
  => /\ profile.null \/
          \A f \in DOMAIN profile.obj :
            profile.obj[f] = FieldFrom(name[Latest], resolvedAddress[Latest], f)
     /\ \A k \in 1..Len(transactions) : transactions[k].from = resolvedAddress[Latest]

\* C7: a step changes the log only by putting new entries in front of it,
\* one per call of addLog: the log before the step is a suffix of the log
\* after it, and the entries stand newest first, across lookups (overlapping
\* ones too) and graph submits.
C7_LogAppendOnly ==
  /\ [](\A i \in 1..Len(logs) : logs[i].time = Len(logs) - i + 1)
  /\ [][/\ Len(logs') >= Len(logs)
        /\ SubSeq(logs', Len(logs') - Len(logs) + 1, Len(logs')) = logs]_vars

\* C7 witness: a graph was built and two lookups of different names, the
\* second started while the first was suspended, have come to their end.
C7_Witness ==
  /\ GraphSubmits > 0
  /\ \A l \in Lookups : pc[l] = "done"
  /\ name[1] # name[2]
  /\ resolvedAddress[1] # NoAddress
  /\ \E i \in 1..Len(logs) :
       /\ logs[i].text = [msg |-> "Resolving ENS name: ", args |-> <<name[2]>>]
       /\ \E j \in 1..(i - 1) : logs[j].text.msg = "balance: " /\
            logs[j].text.args = <<FieldFrom(name[1], resolvedAddress[1], "balance")>>

\* A step of the application in which no invocation of doLookup started or
\* resumed: a graph submit, a change of mode or of the query, the closing of
\* the modal, or a click on a node whose title is empty.
NoLookupStep == pc' = pc

\* C11 as stated: every step that is not one of doLookup leaves the log, the
\* profile and the transactions unchanged.
C11_OnlyLookupsWrite ==
  [][NoLookupStep => UNCHANGED <<logs, profile, transactions>>]_vars

\* C11 as amended: every step that is not one of doLookup leaves the profile
\* and the transactions unchanged, and leaves the log unchanged unless it is
\* a graph submit, which puts its one informational entry in front.
C11_OnlyLookupsWriteResults ==
  [][NoLookupStep =>
       /\ UNCHANGED <<profile, transactions>>
       /\ logs' # logs =>
            /\ mode = "graph"
            /\ ~loading
            /\ graphNodes' = parseGraphInput(query).nodes
            /\ graphEdges' = parseGraphInput(query).edges
            /\ Len(logs') = Len(logs) + 1
            /\ Tail(logs') = logs
            /\ Head(logs').level = "info"
            /\ Head(logs').text.msg = "Created graph with N nodes and M edges"]_vars

\* C11 witness: with a profile and transactions on display, the node with
\* the empty title was clicked (selection and modal, then doLookup("")),
\* after a graph had been built.
C11_Witness ==
  /\ selectedNode = <<<<>>>>
  /\ emptyCalls > 0
  /\ showModal
  /\ ~profile.null
  /\ transactions # <<>>
  /\ GraphSubmits > 0
  /\ Head(logs).text.msg = "Found N recent transactions"

\* C12: after any lookup the transactions are at most PageSize (10), whatever
\* array the transaction history returned under status "1".
C12_AtMostTenTransactions == Len(transactions) <= PageSize

\* The diagnostic calls and the message of the error entry each logs when
\* it fails.
DiagnosticCalls ==
  {"getBalance", "getCode", "getTransactionCount", "lookupAddress", "getResolver",
   "getContentHash", "getAddress", "addr_60", "getAddress_60", "getAddress_61"}

FailureMessage(call) ==
  CASE call = "getBalance"          -> "getBalance failed: "
    [] call = "getCode"             -> "getCode failed: "
    [] call = "getTransactionCount" -> "getTransactionCount failed: "
    [] call = "lookupAddress"       -> "lookupAddress failed: "
    [] call = "getResolver"         -> "getResolver failed: "
    [] call = "getContentHash"      -> "getContentHash failed: "
    [] call \in {"getAddress", "addr_60"} -> "resolver address lookup failed: "
    [] call \in {"getAddress_60", "getAddress_61"} -> "resolver.getAddress(coin) failed: "

\* The step that follows a diagnostic call in the text of doLookup when the
\* call has failed (getAddress_60 is awaited by resolvers with getAddress
\* only, addr_60 by those without).
StepAfterFailure(call) ==
  CASE call = "getBalance"          -> {"getCode"}
    [] call = "getCode"             -> {"getTransactionCount"}
    [] call = "getTransactionCount" -> {"lookupAddress"}
    [] call = "lookupAddress"       -> {"getResolver"}
    [] call = "getResolver"         -> {"fetch"}
    [] call = "getContentHash"      -> {"getText_name"}
    [] call = "getAddress"          -> {"getAddress_60"}
    [] call = "addr_60"             -> {"fetch"}
    [] call = "getAddress_60"       -> {"getAddress_61"}
    [] call = "getAddress_61"       -> {"fetch"}

ErrorEntries(entries) == SelectSeq(entries, LAMBDA e : e.level = "error")

\* C13: past the short-circuit, a diagnostic call that fails appends exactly
\* one error entry, the one of its step, writes no field of the profile (a
\* failed getBalance leaves address and balance unset) and is followed by
\* the next step of the lookup: after a failure for coin type 60 the address
\* for 61 is still asked for, and in every lookup that got past the
\* short-circuit, with or without a resolver, the transaction history is
\* requested.
C13_DiagnosticFailuresIsolated ==
  /\ [](\A l \in Lookups :
          (<<l, "getBalance">> \in issued /\ pc[l] = "done") => <<l, "fetch">> \in issued)
  /\ [][\A l \in Lookups : \A c \in DiagnosticCalls :
          (pc[l] = c /\ pc'[l] # c /\ settled'.outcome = "throw") =>
            /\ profile' = profile
            /\ c = "getBalance" => profile'.null
            /\ Len(ErrorEntries(NewEntries)) = 1
            /\ ErrorEntries(NewEntries)[1].text.msg = FailureMessage(c)
            /\ ErrorEntries(NewEntries)[1] = NewEntries[Len(NewEntries)]
            /\ pc'[l] \in StepAfterFailure(c)
            /\ <<l, pc'[l]>> \in issued']_vars

\* C13 witness: getBalance and the address for coin type 60 failed, the one
\* for 61 was asked for, and the transaction history has been requested
\* with no balance in the profile.
C13_Witness ==
  /\ pc[1] = "fetch"
  /\ settled.call = "getAddress_61"
  /\ \E i \in 1..Len(logs) : logs[i].text.msg = "getBalance failed: "
  /\ \E i \in 1..Len(logs) :
       /\ logs[i].text.msg = "resolver.getAddress(coin) failed: "
       /\ logs[i].text.args[1] = NatToStr(60)
  /\ profile.null \/ "balance" \notin DOMAIN profile.obj

\* C14: the loading flag is true in every state in which an invocation of
\* doLookup with a non-empty input has started and has not reached its end,
\* lookups that overlap included.
C14_LoadingWhileInFlight ==
  (\E l \in Lookups : InFlight(l)) => loading

====
